---- MODULE Spec2Model ----
(***************************************************************************)
(* openai-resilient-proxy: the failover dispatch of one endpoint           *)
(* (POST <endpoint>/chat/completions), its provider liveness state and     *)
(* the periodic dead-provider health check.                                *)
(*                                                                         *)
(* src/openai-endpoints.example.js holds the example configuration         *)
(* (lines 1-32), the server (lines 33-406, "current") and an earlier       *)
(* revision of the server (lines 407-672, "earlier").  The variable        *)
(* `revision` fixes which of the two servers a behaviour runs.             *)
(***************************************************************************)
EXTENDS Integers, Sequences, FiniteSets, TLC

\* ---- bounds of the model ------------------------------------------------
NumProviders == 3      \* providers configured for the endpoint
MaxTime == 2           \* Date.now() takes the values 1..MaxTime
MaxFrags == 2          \* longest upstream stream, in fragments
MaxProbes == 1         \* health checks in flight per provider
MaxInFlight == 1       \* requests being handled at the same time (a slot serves one request after another)

\* ---- program constants --------------------------------------------------
DEFAULT_CHECK_PERIOD == 10     \* DEAD_PROVIDER_CHECK_PERIOD = 10
EARLIER_CHECK_PERIOD == 60     \* DEAD_PROVIDER_CHECK_PERIOD = 60 (earlier revision)

Providers == 1..NumProviders
Reqs == 1..MaxInFlight
Null == 0              \* JS null (timestamps are >= 1)
Undefined == -1        \* a property the object does not have
NoModel == "undefined"

VARIABLES
    revision,                    \* "current" | "earlier"
    DEAD_PROVIDER_CHECK_PERIOD,  \* minutes, from the environment
    providerStates,              \* [mode, providers: array of provider objects]
    now,                         \* the value Date.now() returns
    req,                         \* one record per request handler invocation (with what res was sent)
    probes,                      \* per provider: healthCheck calls awaiting their upstream reply
    healthLog                    \* the line healthCheck logged last, and the provider it names

vars == <<revision, DEAD_PROVIDER_CHECK_PERIOD, providerStates, now, req, probes,
          healthLog>>

\* ---- configuration ------------------------------------------------------
\* provider.model: every second provider forces a model
ModelOverride == [p \in Providers |-> IF p % 2 = 0 THEN "m2" ELSE NoModel]

\* provider.retries: the first provider is configured with `retries: 1`, the
\* others leave it out (default 0)
Retries == [p \in Providers |-> IF p = 1 THEN 1 ELSE 0]

\* ---- request bodies -----------------------------------------------------
MsgUndefined == [type |-> "undefined", len |-> 0]
MsgString == [type |-> "string", len |-> 2]
MsgEmptyArray == [type |-> "array", len |-> 0]
MsgArray == [type |-> "array", len |-> 1]

Body(m, s, mod) == [messages |-> m, stream |-> s, model |-> mod]

RequestBodies ==
    { Body(MsgUndefined, FALSE, "m1"), Body(MsgString, FALSE, "m1"),
      Body(MsgEmptyArray, FALSE, NoModel),
      Body(MsgArray, FALSE, "m1"), Body(MsgArray, TRUE, "m1") }

NoBody == Body(MsgUndefined, FALSE, NoModel)

\* JS truthiness of requestBody.messages
Truthy(m) ==
    CASE m.type = "undefined" -> FALSE
      [] m.type = "string" -> m.len > 0
      [] m.type = "array" -> TRUE

IsArray(m) == m.type = "array"

\* the Array.isArray half of the test left out
ValidBody_TruthyOnly(body) == Truthy(body.messages)

\* !( !requestBody?.messages || !Array.isArray(requestBody.messages) )
ValidBody(body) == ~(~Truthy(body.messages) \/ ~IsArray(body.messages))

\* the two spreads in the opposite order: the caller's model wins
MergeOptions_CallerWins(body, p, stream) ==
    [messages |-> body.messages,
     model |-> IF body.model # NoModel THEN body.model ELSE ModelOverride[p],
     stream |-> stream]

\* { ...requestBody, ...(provider.model ? { model: provider.model } : {}), stream }
MergeOptions(body, p, stream) ==
    [messages |-> body.messages,
     model |-> IF ModelOverride[p] # NoModel THEN ModelOverride[p] ELSE body.model,
     stream |-> stream]

\* ---- the Selector -------------------------------------------------------
\* a swap that loses the element at j
Swap_Overwrite(s, i, j) == [s EXCEPT ![i] = s[j]]

Swap(s, i, j) == [s EXCEPT ![i] = s[j], ![j] = s[i]]

\* the loop `for (i = length - 1; i > 0; i--)` over every value of Math.random();
\* i is the 1-based position of JS index i
RECURSIVE Shuffle(_, _)
Shuffle(S, i) ==
    IF i <= 1 THEN S
    ELSE Shuffle({ Swap(s, i, j) : s \in S, j \in 1..i }, i - 1)

\* the filter without its negation
Filter_DeadOnly(providers) ==
    SelectSeq([i \in 1..Len(providers) |-> i], LAMBDA p : providers[p].isDead)

Filter(providers) ==
    SelectSeq([i \in 1..Len(providers) |-> i], LAMBDA p : ~providers[p].isDead)

\* no liveness filter at all
getAvailableProviders_NoFilter(ps) ==
    LET available == [i \in 1..Len(ps.providers) |-> i]
    IN  IF ps.mode = "random" THEN Shuffle({available}, Len(available))
        ELSE {available}

\* the shuffle applied whatever the mode
getAvailableProviders_AlwaysShuffle(ps) ==
    LET available == Filter(ps.providers)
    IN  Shuffle({available}, Len(available))

\* the set of arrays getAvailableProviders can return (provider objects by index)
getAvailableProviders(ps) ==
    LET available == Filter(ps.providers)
    IN  IF ps.mode = "random" THEN Shuffle({available}, Len(available))
        ELSE {available}

\* the shuffle swaps the elements of the endpoint's own array
ProvidersAfterSelect_InPlace(ps, available) ==
    IF ps.mode = "random" /\ Len(available) = Len(ps.providers)
    THEN [i \in 1..Len(ps.providers) |-> ps.providers[available[i]]]
    ELSE ps.providers

\* providerStates[endpoint].providers once getAvailableProviders has returned
\* `available`: filter() built a new array and the swaps were made in that one
ProvidersAfterSelect(ps, available) == ps.providers

\* ---- upstream outcomes --------------------------------------------------
DeadStatuses == {401, 403, 429, 500, 503}
Statuses == DeadStatuses \cup {400, 404, 502}

Outcome(k, s) == [kind |-> k, status |-> s]
Outcomes == { Outcome("ok", 200), Outcome("network", 0) }
            \cup { Outcome("api", s) : s \in Statuses }

\* 429 missing from the status list
MarksDead_Without429(o) ==
    IF o.kind = "api" THEN o.status \in {401, 403, 500, 503} ELSE o.kind = "network"

\* every API error marks the provider dead
MarksDead_AnyApiError(o) == o.kind \in {"api", "network"}

\* every 5xx status marks the provider dead
MarksDead_Every5xx(o) ==
    IF o.kind = "api" THEN o.status \in {401, 403, 429} \/ o.status >= 500
    ELSE o.kind = "network"

\* 500 missing from the status list: an upstream 500 is forwarded
MarksDead_Without500(o) ==
    IF o.kind = "api" THEN o.status \in {401, 403, 429, 503} ELSE o.kind = "network"

\* only the listed API statuses mark the provider dead
MarksDead_NetworkForwarded(o) == o.kind = "api" /\ o.status \in DeadStatuses

\* the catch block's classification: does this error mark the provider dead?
MarksDead(o) ==
    IF o.kind = "api" THEN o.status \in DeadStatuses ELSE o.kind = "network"

\* ---- what the caller receives -------------------------------------------
Ev(k, s, b, p) == [kind |-> k, status |-> s, body |-> b, from |-> p]
JsonEv(s, b, p) == Ev("json", s, b, p)
HeadersEv(p) == Ev("headers", 200, <<"text/event-stream", 0>>, p)
\* `data: ${JSON.stringify(chunk)}\n\n`
ChunkEv(c, p) == Ev("write", 200, <<"data: JSON", c>>, p)
DoneEv(p) == Ev("write", 200, <<"data: [DONE]", 0>>, p)
EndEv(p) == Ev("end", 200, <<"", 0>>, p)

\* ---- provider state -----------------------------------------------------
\* the failure time is recorded but isDead is not set
MarkDead_FlagForgotten(ps, p) ==
    [ps EXCEPT !.providers[p] =
        IF revision = "earlier" THEN [@ EXCEPT !.lastFailedAt = now] ELSE @]

MarkDead(ps, p) ==
    [ps EXCEPT !.providers[p] =
        IF revision = "earlier"
        THEN [@ EXCEPT !.isDead = TRUE, !.lastFailedAt = now]
        ELSE [@ EXCEPT !.isDead = TRUE]]

\* the time is recorded on a provider's first use only
MarkUsed_FirstUseOnly(ps, p) ==
    IF revision = "current" /\ ps.providers[p].lastUsedAt = Null
    THEN [ps EXCEPT !.providers[p].lastUsedAt = now]
    ELSE ps

MarkUsed(ps, p) ==
    IF revision = "current"
    THEN [ps EXCEPT !.providers[p].lastUsedAt = now]
    ELSE ps

\* lastFailedAt is not cleared
Revive_KeepsFailedAt(ps, p) == [ps EXCEPT !.providers[p].isDead = FALSE]

Revive(ps, p) ==
    [ps EXCEPT !.providers[p] =
        IF revision = "earlier"
        THEN [@ EXCEPT !.isDead = FALSE, !.lastFailedAt = Null]
        ELSE [@ EXCEPT !.isDead = FALSE]]

InitProvider ==
    [isDead |-> FALSE,
     lastUsedAt |-> IF revision = "current" THEN Null ELSE Undefined,
     lastFailedAt |-> IF revision = "earlier" THEN Null ELSE Undefined]

InitReq ==
    [pc |-> "idle", requestBody |-> NoBody, availableProviders |-> <<>>, idx |-> 0,
     nsel |-> 0, calls |-> <<>>, upstream |-> "none", emitted |-> <<>>, resp |-> <<>>,
     callerGone |-> FALSE]

Init ==
    /\ revision \in {"current", "earlier"}
    /\ DEAD_PROVIDER_CHECK_PERIOD \in
          {0, IF revision = "current" THEN DEFAULT_CHECK_PERIOD ELSE EARLIER_CHECK_PERIOD}
    /\ \E m \in IF revision = "current" THEN {"ordered", "random"} ELSE {"ordered"} :
          providerStates = [mode |-> m, providers |-> [p \in Providers |-> InitProvider]]
    /\ now = 1
    /\ req = [r \in Reqs |-> InitReq]
    /\ probes = [p \in Providers |-> 0]
    /\ healthLog = [p |-> 0, line |-> "none"]

\* ---- the request handler ------------------------------------------------
\* the loop does not advance: after a failure the same candidate is called again
Attempt_SameCandidateAgain(rq, ps, i) ==
    LET j == IF i > 1 THEN i - 1 ELSE i
        p == rq.availableProviders[j]
    IN  [rq |-> [rq EXCEPT !.idx = j, !.pc = "awaitCreate",
                    !.calls = Append(@, [p |-> p,
                        opts |-> MergeOptions(rq.requestBody, p, rq.requestBody.stream)])],
         ps |-> MarkUsed(ps, p)]

\* the streaming headers are flushed before the stream is opened
Attempt_HeadersBeforeOpen(rq, ps, i) ==
    LET p == rq.availableProviders[i]
    IN  [rq |-> [rq EXCEPT !.idx = i, !.pc = "awaitCreate",
                    !.calls = Append(@, [p |-> p,
                        opts |-> MergeOptions(rq.requestBody, p, rq.requestBody.stream)]),
                    !.resp = IF rq.requestBody.stream THEN Append(@, HeadersEv(p)) ELSE @],
         ps |-> MarkUsed(ps, p)]

\* the loop looks at isDead again and passes over a candidate that has died since
\* the selection
Attempt_SkipsDeadCandidate(rq, ps, i) ==
    LET j == IF ps.providers[rq.availableProviders[i]].isDead
                /\ i < Len(rq.availableProviders)
             THEN i + 1 ELSE i
        p == rq.availableProviders[j]
    IN  [rq |-> [rq EXCEPT !.idx = j, !.pc = "awaitCreate",
                    !.calls = Append(@, [p |-> p,
                        opts |-> MergeOptions(rq.requestBody, p, rq.requestBody.stream)])],
         ps |-> MarkUsed(ps, p)]

\* one iteration of `for (const provider of availableProviders)` up to its await:
\* lastUsedAt, the outbound options, the upstream call
Attempt(rq, ps, i) ==
    LET p == rq.availableProviders[i]
    IN  [rq |-> [rq EXCEPT !.idx = i, !.pc = "awaitCreate",
                    !.calls = Append(@, [p |-> p,
                        opts |-> MergeOptions(rq.requestBody, p, rq.requestBody.stream)])],
         ps |-> MarkUsed(ps, p)]

\* the handler from its entry to its first await (or its return)
Handler(r, body) ==
    /\ req[r].pc \in {"idle", "done"}
    /\ LET rq == [InitReq EXCEPT !.requestBody = body]
       IN  IF ~ValidBody(body)
           THEN /\ req' = [req EXCEPT ![r] = [rq EXCEPT !.pc = "done",
                            !.resp = <<JsonEv(400, <<"Invalid request body", 0>>, 0)>>]]
                /\ UNCHANGED providerStates
           ELSE \E avail \in getAvailableProviders(providerStates) :
                  LET sel == [rq EXCEPT !.availableProviders = avail, !.nsel = @ + 1]
                      selected == [providerStates EXCEPT
                                     !.providers = ProvidersAfterSelect(providerStates, avail)]
                  IN  IF Len(avail) = 0
                      THEN /\ req' = [req EXCEPT ![r] = [sel EXCEPT !.pc = "done",
                                 !.resp = <<JsonEv(500, <<"No available providers", 0>>, 0)>>]]
                           /\ providerStates' = selected
                      ELSE LET a == Attempt(sel, selected, 1)
                           IN  /\ req' = [req EXCEPT ![r] = a.rq]
                               /\ providerStates' = a.ps
    /\ UNCHANGED <<revision, DEAD_PROVIDER_CHECK_PERIOD, now, probes, healthLog>>

\* `await client.chat.completions.create(...)` settles with outcome o
CreateReturns(r, o) ==
    /\ req[r].pc = "awaitCreate"
    /\ LET rq == req[r]
           p == rq.availableProviders[rq.idx]
       IN  IF o.kind = "ok"
           THEN /\ UNCHANGED providerStates
                /\ IF rq.requestBody.stream
                   THEN req' = [req EXCEPT ![r] = [rq EXCEPT !.pc = "streaming",
                                    !.upstream = "open",
                                    !.resp = Append(@, HeadersEv(p))]]
                   ELSE req' = [req EXCEPT ![r] = [rq EXCEPT !.pc = "done",
                                    !.resp = Append(@, JsonEv(200, <<"completion", p>>, p))]]
           ELSE IF MarksDead(o)
           THEN LET dead == MarkDead(providerStates, p)
                IN  IF rq.idx < Len(rq.availableProviders)
                    THEN LET a == Attempt(rq, dead, rq.idx + 1)
                         IN  /\ req' = [req EXCEPT ![r] = a.rq]
                             /\ providerStates' = a.ps
                    ELSE /\ req' = [req EXCEPT ![r] = [rq EXCEPT !.pc = "done",
                                    !.resp = Append(@, JsonEv(500, <<"All providers failed", 0>>, 0))]]
                         /\ providerStates' = dead
           ELSE /\ req' = [req EXCEPT ![r] = [rq EXCEPT !.pc = "done",
                                    !.resp = Append(@, JsonEv(o.status, <<"err.message", p>>, p))]]
                /\ UNCHANGED providerStates
    /\ UNCHANGED <<revision, DEAD_PROVIDER_CHECK_PERIOD, now, probes, healthLog>>

\* `for await (const chunk of stream)` yields the stream's next fragment: res.write
StreamChunk(r) ==
    /\ req[r].pc = "streaming"
    /\ Len(req[r].emitted) < MaxFrags
    /\ LET rq == req[r]
           p == rq.availableProviders[rq.idx]
           chunk == Len(rq.emitted) + 1
       IN  req' = [req EXCEPT ![r] = [rq EXCEPT !.emitted = Append(@, chunk),
                        !.resp = Append(@, ChunkEv(chunk, p))]]
    /\ UNCHANGED <<revision, DEAD_PROVIDER_CHECK_PERIOD, providerStates, now, probes, healthLog>>

\* res.end() without the terminator
StreamEnd_NoTerminator(r) ==
    /\ req[r].pc = "streaming"
    /\ LET rq == req[r]
           p == rq.availableProviders[rq.idx]
       IN  req' = [req EXCEPT ![r] = [rq EXCEPT !.pc = "done", !.upstream = "ended",
                        !.resp = Append(@, EndEv(p))]]
    /\ UNCHANGED <<revision, DEAD_PROVIDER_CHECK_PERIOD, providerStates, now, probes, healthLog>>

\* the stream ends: the terminator and res.end()
StreamEnd(r) ==
    /\ req[r].pc = "streaming"
    /\ LET rq == req[r]
           p == rq.availableProviders[rq.idx]
       IN  req' = [req EXCEPT ![r] = [rq EXCEPT !.pc = "done", !.upstream = "ended",
                        !.resp = @ \o <<DoneEv(p), EndEv(p)>>]]
    /\ UNCHANGED <<revision, DEAD_PROVIDER_CHECK_PERIOD, providerStates, now, probes, healthLog>>

\* the stream error is caught but the provider is not marked
StreamError_NotMarked(r) ==
    /\ req[r].pc = "streaming"
    /\ LET rq == req[r]
           p == rq.availableProviders[rq.idx]
       IN  req' = [req EXCEPT ![r] = [rq EXCEPT !.pc = "done", !.upstream = "errored",
                        !.resp = Append(@, EndEv(p))]]
    /\ UNCHANGED <<revision, DEAD_PROVIDER_CHECK_PERIOD, providerStates, now, probes, healthLog>>

\* the catch (streamErr) block without its return: the loop goes on
StreamError_FallsThrough(r) ==
    /\ req[r].pc = "streaming"
    /\ LET rq == [req[r] EXCEPT !.upstream = "errored",
                      !.resp = Append(@, EndEv(req[r].availableProviders[req[r].idx]))]
           dead == MarkDead(providerStates, rq.availableProviders[rq.idx])
       IN  IF rq.idx < Len(rq.availableProviders)
           THEN /\ req' = [req EXCEPT ![r] = Attempt(rq, dead, rq.idx + 1).rq]
                /\ providerStates' = Attempt(rq, dead, rq.idx + 1).ps
           ELSE /\ req' = [req EXCEPT ![r] = [rq EXCEPT !.pc = "done",
                            !.resp = Append(@, JsonEv(500, <<"All providers failed", 0>>, 0))]]
                /\ providerStates' = dead
    /\ UNCHANGED <<revision, DEAD_PROVIDER_CHECK_PERIOD, now, probes, healthLog>>

\* the stream throws: catch (streamErr)
StreamError(r) ==
    /\ req[r].pc = "streaming"
    /\ LET rq == req[r]
           p == rq.availableProviders[rq.idx]
       IN  /\ providerStates' = MarkDead(providerStates, p)
           /\ req' = [req EXCEPT ![r] = [rq EXCEPT !.pc = "done", !.upstream = "errored",
                        !.resp = Append(@, EndEv(p))]]
    /\ UNCHANGED <<revision, DEAD_PROVIDER_CHECK_PERIOD, now, probes, healthLog>>

\* the caller closes its connection while the stream is being relayed; the
\* handler registers no listener for it, so nothing of the handler runs
Disconnect(r) ==
    /\ req[r].pc = "streaming"
    /\ ~req[r].callerGone
    /\ req' = [req EXCEPT ![r].callerGone = TRUE]
    /\ UNCHANGED <<revision, DEAD_PROVIDER_CHECK_PERIOD, providerStates, now, probes, healthLog>>

\* ---- the dead-provider check --------------------------------------------
TimerInstalled == revision = "earlier" \/ DEAD_PROVIDER_CHECK_PERIOD > 0

\* the callback checks one dead provider per run instead of all of them
Tick_FirstDeadOnly ==
    /\ TimerInstalled
    /\ \E p \in Providers : providerStates.providers[p].isDead
    /\ \A p \in Providers : providerStates.providers[p].isDead => probes[p] < MaxProbes
    /\ probes' = [p \in Providers |->
                    IF /\ providerStates.providers[p].isDead
                       /\ \A q \in 1..(p - 1) : ~providerStates.providers[q].isDead
                    THEN probes[p] + 1 ELSE probes[p]]
    /\ UNCHANGED <<revision, DEAD_PROVIDER_CHECK_PERIOD, providerStates, now, req, healthLog>>

\* one run of the setInterval callback: a healthCheck per dead provider
Tick ==
    /\ TimerInstalled
    /\ \E p \in Providers : providerStates.providers[p].isDead
    /\ \A p \in Providers : providerStates.providers[p].isDead => probes[p] < MaxProbes
    /\ probes' = [p \in Providers |->
                    IF providerStates.providers[p].isDead THEN probes[p] + 1 ELSE probes[p]]
    /\ UNCHANGED <<revision, DEAD_PROVIDER_CHECK_PERIOD, providerStates, now, req, healthLog>>

\* healthCheck's await settles with outcome o
healthCheck(p, o) ==
    /\ probes[p] > 0
    /\ probes' = [probes EXCEPT ![p] = @ - 1]
    /\ IF o.kind = "ok"
       THEN /\ healthLog' = [p |-> p, line |-> "is back online"]
            /\ providerStates' = Revive(providerStates, p)
       ELSE /\ healthLog' = [p |-> p, line |-> "Health check failed"]
            /\ UNCHANGED providerStates
    /\ UNCHANGED <<revision, DEAD_PROVIDER_CHECK_PERIOD, now, req>>

\* Date.now() moves on
TimePasses ==
    /\ now < MaxTime
    /\ now' = now + 1
    /\ UNCHANGED <<revision, DEAD_PROVIDER_CHECK_PERIOD, providerStates, req, probes, healthLog>>

Next ==
    \/ \E r \in Reqs, body \in RequestBodies : Handler(r, body)
    \/ \E r \in Reqs, o \in Outcomes : CreateReturns(r, o)
    \/ \E r \in Reqs : StreamChunk(r)
    \/ \E r \in Reqs : StreamEnd(r)
    \/ \E r \in Reqs : StreamError(r)
    \/ \E r \in Reqs : Disconnect(r)
    \/ Tick
    \/ \E p \in Providers, o \in Outcomes : healthCheck(p, o)
    \/ TimePasses

Spec == Init /\ [][Next]_vars

\* every create call a handler awaits settles (a reply, an error, or the
\* client's timeout), and every stream a handler reads yields, ends or fails
TerminationSpec ==
    /\ Spec
    /\ \A r \in Reqs :
         /\ WF_vars(\E o \in Outcomes : CreateReturns(r, o))
         /\ WF_vars(StreamChunk(r) \/ StreamEnd(r) \/ StreamError(r))

\* ---- two requests in flight ----------------------------------------------
\* the handlers of two requests, one per slot, interleave at their awaits; the
\* server is the current revision with its timer installed
RaceReqs == 1..(MaxInFlight + 1)
RaceBodies == { Body(MsgArray, FALSE, "m1") }
RaceOutcomes == { Outcome("ok", 200), Outcome("api", 500), Outcome("api", 400) }

RaceInit ==
    /\ revision = "current"
    /\ DEAD_PROVIDER_CHECK_PERIOD = DEFAULT_CHECK_PERIOD
    /\ \E m \in {"ordered", "random"} :
          providerStates = [mode |-> m, providers |-> [p \in Providers |-> InitProvider]]
    /\ now = 1
    /\ req = [r \in RaceReqs |-> InitReq]
    /\ probes = [p \in Providers |-> 0]
    /\ healthLog = [p |-> 0, line |-> "none"]

RaceNext ==
    \/ \E r \in RaceReqs, body \in RaceBodies : req[r].pc = "idle" /\ Handler(r, body)
    \/ \E r \in RaceReqs, o \in RaceOutcomes : CreateReturns(r, o)
    \/ Tick
    \/ \E p \in Providers, o \in RaceOutcomes : healthCheck(p, o)
    \/ TimePasses

RaceSpec == RaceInit /\ [][RaceNext]_vars

\* the interval timer keeps firing, and every health check's create call settles
\* (with a reply or with the client's timeout)
FairSpec ==
    /\ Spec
    /\ WF_vars(Tick)
    /\ \A p \in Providers : WF_vars(\E o \in Outcomes : healthCheck(p, o))

\* ---- vocabulary of the properties ---------------------------------------
Rng(s) == { s[i] : i \in 1..Len(s) }
IsDead(p) == providerStates.providers[p].isDead
Live == { p \in Providers : ~IsDead(p) }
Cur(r) == req[r].availableProviders[req[r].idx]
OkOutcome == Outcome("ok", 200)
\* the errors the specification classifies as auth/quota/server or transport errors
DeadMarkingOutcome(o) ==
    \/ o.kind = "network"
    \/ o.kind = "api" /\ o.status \in {401, 403, 429, 500, 503}
\* this step is the arrival of a request in slot r (the handler's entry)
Arrives(r) == req[r].pc \in {"idle", "done"} /\ req'[r] # req[r]
\* this step is a run of getAvailableProviders by request r
SelectorCall(r) == Arrives(r) /\ req'[r].nsel = 1
ConfiguredOrder == [i \in 1..NumProviders |-> i]
Exhaustion(e) == e.kind = "json" /\ e.status = 500 /\ e.from = 0
\* the providers whose create call failed with a dead-marking error in the dispatch rq
DeadMarkedBy(rq) ==
    { rq.availableProviders[i] : i \in 1..(rq.idx - 1) }
    \cup IF rq.pc = "done" /\ rq.nsel = 1 /\ rq.idx >= 1 /\ rq.calls # <<>>
            /\ Exhaustion(rq.resp[Len(rq.resp)])
         THEN { rq.availableProviders[rq.idx] } ELSE {}

\* C1: when a candidate's call fails with a dead-marking error and a further
\* candidate remains, that step marks the failed provider dead, sends nothing to
\* the caller and moves on to the next candidate; when a candidate's call then
\* succeeds, the caller receives that provider's completion as the only response.
C1_FailoverReturnsNextCompletion ==
    [][\A r \in Reqs, o \in Outcomes :
         CreateReturns(r, o) =>
           /\ (DeadMarkingOutcome(o) /\ req[r].idx < Len(req[r].availableProviders)) =>
                /\ providerStates'.providers[Cur(r)].isDead
                /\ req[r].resp = <<>> /\ req'[r].resp = <<>>
                /\ req'[r].pc = "awaitCreate"
                /\ req'[r].idx = req[r].idx + 1
           /\ (o = OkOutcome /\ ~req[r].requestBody.stream) =>
                /\ req'[r].resp = <<JsonEv(200, <<"completion", Cur(r)>>, Cur(r))>>
                /\ req'[r].pc = "done"
                /\ req'[r].idx = req[r].idx
      ]_vars

\* ordered mode, every provider live at selection: P1 failed, P2's completion returned
C1_Witness ==
    \E r \in Reqs :
      /\ providerStates.mode = "ordered"
      /\ req[r].availableProviders = ConfiguredOrder
      /\ req[r].idx = 2 /\ req[r].pc = "done"
      /\ req[r].resp = <<JsonEv(200, <<"completion", 2>>, 2)>>
      /\ IsDead(1)

\* C2 (as amended): a provider whose call fails with status 401, 403, 429, 500 or
\* 503 or with a transport error is dead when the attempt ends; a dead provider
\* becomes live only by a successful health check; and the next Selector call
\* leaves out every provider the preceding dispatch dead-marked that is still dead.
C2_DeadMarkedExcludedUntilRevived ==
    [][/\ \A r \in Reqs, o \in Outcomes :
            (CreateReturns(r, o) /\ DeadMarkingOutcome(o))
              => providerStates'.providers[Cur(r)].isDead
       /\ \A p \in Providers :
            (IsDead(p) /\ ~providerStates'.providers[p].isDead) => healthCheck(p, OkOutcome)
       /\ \A r \in Reqs :
            SelectorCall(r) =>
              \A p \in DeadMarkedBy(req[r]) :
                 IsDead(p) => p \notin Rng(req'[r].availableProviders)
      ]_vars

\* C2 as stated: the very next Selector call never returns a provider the
\* preceding dispatch dead-marked.
C2_Original ==
    [][\A r \in Reqs :
         SelectorCall(r) =>
           \A p \in DeadMarkedBy(req[r]) : p \notin Rng(req'[r].availableProviders)
      ]_vars

\* a dispatch has just selected, and a provider that is dead was left out
C2_Witness ==
    \E r \in Reqs, p \in Providers :
      /\ req[r].pc = "awaitCreate" /\ req[r].idx = 1
      /\ IsDead(p)
      /\ p \notin Rng(req[r].availableProviders)

\* C3: a create call that fails with status 400 or 404 changes no provider state
\* (isDead included), ends the dispatch with that status as the only response, and
\* issues no further upstream call.
C3_ClientErrorForwarded ==
    [][\A r \in Reqs, o \in Outcomes :
         (CreateReturns(r, o) /\ o.kind = "api" /\ o.status \in {400, 404}) =>
           /\ providerStates' = providerStates
           /\ req'[r].pc = "done"
           /\ Len(req'[r].resp) = 1
           /\ req'[r].resp[1].kind = "json"
           /\ req'[r].resp[1].status = o.status
           /\ req'[r].resp[1].from = Cur(r)
           /\ req'[r].calls = req[r].calls
      ]_vars

\* a 400/404 was forwarded although further candidates remained; the provider is live
C3_Witness ==
    \E r \in Reqs :
      /\ req[r].pc = "done"
      /\ req[r].idx >= 1 /\ req[r].idx < Len(req[r].availableProviders)
      /\ Len(req[r].resp) = 1
      /\ req[r].resp[1].status \in {400, 404}
      /\ req[r].resp[1].from = Cur(r)
      /\ ~IsDead(Cur(r))
      /\ Len(req[r].calls) = req[r].idx

AllDead == \A p \in Providers : IsDead(p)
NoAvailableProviders(rq) ==
    /\ rq.pc = "done"
    /\ rq.resp = <<JsonEv(500, <<"No available providers", 0>>, 0)>>
    /\ rq.calls = <<>>

\* C4 (as amended): if every provider is dead when a request whose messages field
\* is an array arrives, the handler answers 500 "No available providers", issues
\* no upstream call and changes no provider state.
C4_AllDeadNoUpstream ==
    [][\A r \in Reqs :
         (Arrives(r) /\ AllDead /\ req'[r].requestBody.messages.type = "array") =>
           /\ NoAvailableProviders(req'[r])
           /\ providerStates' = providerStates
      ]_vars

\* C4 as stated: whatever request arrives while every provider is dead gets the
\* exhaustion failure.
C4_Original ==
    [][\A r \in Reqs : (Arrives(r) /\ AllDead) => NoAvailableProviders(req'[r])]_vars

\* every provider is dead and the request was answered with the exhaustion failure
C4_Witness ==
    \E r \in Reqs : AllDead /\ req[r].nsel = 1 /\ NoAvailableProviders(req[r])

\* C5: in ordered mode, a dispatch that starts while exactly the first N providers
\* are dead gets the candidates N+1..end in configured order, and the upstream
\* calls of every dispatch are a prefix of its candidates, in that order.
C5_SkipsDeadPrefix ==
    /\ [](\A r \in Reqs :
            /\ Len(req[r].calls) = req[r].idx
            /\ req[r].idx <= Len(req[r].availableProviders)
            /\ \A i \in 1..Len(req[r].calls) :
                  req[r].calls[i].p = req[r].availableProviders[i])
    /\ [][\A r \in Reqs, N \in 0..NumProviders :
            (/\ SelectorCall(r)
             /\ providerStates.mode = "ordered"
             /\ \A p \in Providers : IsDead(p) <=> p <= N)
            => req'[r].availableProviders = [i \in 1..(NumProviders - N) |-> N + i]
         ]_vars

\* a dispatch whose candidates were N+1..end (N >= 1) and that called all of them
C5_Witness ==
    \E r \in Reqs, N \in 1..(NumProviders - 1) :
      /\ providerStates.mode = "ordered"
      /\ req[r].availableProviders = [i \in 1..(NumProviders - N) |-> N + i]
      /\ Len(req[r].calls) = NumProviders - N
      /\ \A i \in 1..(NumProviders - N) : req[r].calls[i].p = N + i

\* C6: in ordered mode the Selector's result is the configured order restricted
\* to the providers that are live at the call: it is increasing in configured
\* position and its elements are exactly the live providers; with no dead
\* provider it is the configured order.
C6_OrderedSelection ==
    [][\A r \in Reqs :
         (SelectorCall(r) /\ providerStates.mode = "ordered") =>
           LET a == req'[r].availableProviders
           IN  /\ Rng(a) = Live
               /\ \A i, j \in 1..Len(a) : i < j => a[i] < a[j]
               /\ (Live = Providers => a = ConfiguredOrder)
      ]_vars

\* ordered mode, nothing dead: the candidates are the configured order
C6_Witness ==
    \E r \in Reqs :
      /\ providerStates.mode = "ordered"
      /\ Live = Providers
      /\ req[r].pc = "awaitCreate" /\ req[r].idx = 1
      /\ req[r].availableProviders = ConfiguredOrder

\* C7: in random mode the Selector's result holds every provider live at the call
\* exactly once and nothing else.
C7_RandomIsPermutationOfLive ==
    [][\A r \in Reqs :
         (SelectorCall(r) /\ providerStates.mode = "random") =>
           LET a == req'[r].availableProviders
           IN  /\ Rng(a) = Live
               /\ Len(a) = Cardinality(Live)
      ]_vars

\* random mode: a result of at least two providers that is not in configured order
C7_Witness ==
    \E r \in Reqs :
      /\ providerStates.mode = "random"
      /\ req[r].pc = "awaitCreate" /\ req[r].idx = 1
      /\ Len(req[r].availableProviders) >= 2
      /\ req[r].availableProviders[1] > req[r].availableProviders[2]

\* C8: a health check that succeeds leaves its provider live and without a failure
\* time (null where the revision keeps lastFailedAt) and changes nothing else; a
\* health check that fails changes no provider state and no request: it only logs.
C8_ProbeOutcome ==
    [][\A p \in Providers, o \in Outcomes :
         healthCheck(p, o) =>
           /\ req' = req
           /\ IF o = OkOutcome
              THEN /\ ~providerStates'.providers[p].isDead
                   /\ providerStates'.providers[p].lastFailedAt
                        = (IF revision = "earlier" THEN Null ELSE Undefined)
                   /\ providerStates'.providers[p].lastUsedAt
                        = providerStates.providers[p].lastUsedAt
                   /\ \A q \in Providers \ {p} :
                        providerStates'.providers[q] = providerStates.providers[q]
              ELSE /\ providerStates' = providerStates
                   /\ healthLog'.line = "Health check failed"
      ]_vars

\* a health check of a dead provider has failed: the provider is still dead and,
\* in the earlier revision, still carries its failure time
C8_Witness ==
    /\ healthLog.line = "Health check failed"
    /\ healthLog.p \in Providers
    /\ IsDead(healthLog.p)
    /\ revision = "earlier"
    /\ providerStates.providers[healthLog.p].lastFailedAt >= 1

\* what the caller has received once provider p's stream of fragments frags ended
Relayed(p, frags) ==
    <<HeadersEv(p)>> \o [i \in 1..Len(frags) |-> ChunkEv(frags[i], p)]
        \o <<DoneEv(p), EndEv(p)>>

\* C9: once an upstream stream has ended without failing, the caller has received
\* the stream headers, each fragment the stream yielded once and in order, one
\* terminator, and the end of the response; the handler is finished.
C9_StreamRelayedInOrder ==
    \A r \in Reqs :
      req[r].upstream = "ended" =>
        /\ req[r].pc = "done"
        /\ req[r].resp = Relayed(Cur(r), req[r].emitted)

\* a stream of two fragments has been relayed to its end
C9_Witness ==
    \E r \in Reqs :
      /\ req[r].upstream = "ended"
      /\ Len(req[r].emitted) >= 2
      /\ req[r].emitted[1] # req[r].emitted[2]

IsTerminator(e) == e.kind = "write" /\ e.body[1] = "data: [DONE]"

\* C10: when an open stream fails, that step marks its provider dead, ends the
\* caller's response and finishes the handler; the response holds no terminator
\* and the dispatch has called no candidate after that provider.
C10_MidStreamFailureEnds ==
    /\ [][\A r \in Reqs :
            StreamError(r) =>
              /\ providerStates'.providers[Cur(r)].isDead
              /\ req'[r].resp = Append(req[r].resp, EndEv(Cur(r)))
              /\ req'[r].calls = req[r].calls
              /\ req'[r].idx = req[r].idx
              /\ req'[r].pc = "done"
         ]_vars
    /\ [](\A r \in Reqs :
            req[r].upstream = "errored" =>
              /\ req[r].pc = "done"
              /\ \A i \in 1..Len(req[r].resp) : ~IsTerminator(req[r].resp[i])
              /\ req[r].resp[Len(req[r].resp)].kind = "end"
              /\ Len(req[r].calls) = req[r].idx)

\* a stream failed after a fragment was relayed while a live candidate remained
C10_Witness ==
    \E r \in Reqs :
      /\ req[r].upstream = "errored"
      /\ Len(req[r].emitted) >= 1
      /\ req[r].idx < Len(req[r].availableProviders)
      /\ ~IsDead(req[r].availableProviders[req[r].idx + 1])

NetworkError == Outcome("network", 0)

\* C11: a create call that fails with a network, timeout or transport error marks
\* its provider dead and sends nothing of that error to the caller; the dispatch
\* goes on to the next candidate, or ends with the exhaustion failure when none is
\* left; the step is the very step a 500 from the provider would have caused.
C11_NetworkErrorLikeServerError ==
    [][\A r \in Reqs :
         CreateReturns(r, NetworkError) =>
           /\ providerStates'.providers[Cur(r)].isDead
           /\ \A i \in 1..Len(req'[r].resp) : req'[r].resp[i].from # Cur(r)
           /\ IF req[r].idx < Len(req[r].availableProviders)
              THEN /\ req'[r].pc = "awaitCreate"
                   /\ req'[r].idx = req[r].idx + 1
                   /\ req'[r].calls[req'[r].idx].p = req[r].availableProviders[req[r].idx + 1]
                   /\ req'[r].resp = <<>>
              ELSE /\ req'[r].pc = "done"
                   /\ Len(req'[r].resp) = 1
                   /\ Exhaustion(req'[r].resp[1])
           /\ CreateReturns(r, Outcome("api", 500))
      ]_vars

\* the first candidate failed without a response to the caller, is dead, and the
\* second candidate's call is awaited
C11_Witness ==
    \E r \in Reqs :
      /\ req[r].pc = "awaitCreate" /\ req[r].idx = 2
      /\ IsDead(req[r].availableProviders[1])
      /\ req[r].resp = <<>>
      /\ Len(req[r].calls) = 2

\* how many upstream calls the dispatch rq has issued to provider p
CallsTo(rq, p) == Cardinality({ i \in 1..Len(rq.calls) : rq.calls[i].p = p })
\* failures worth another attempt: transport errors, rate limits, server errors
Transient(o) == o.kind = "network" \/ (o.kind = "api" /\ o.status \in {429, 500, 503})

\* C12: when a candidate's call fails with a transient failure and the dispatch has
\* made no more than `retries` calls to that provider, the next call of the dispatch
\* goes to the same provider; a provider with retries = 0 is called at most once in
\* a dispatch.
C12_RetriesHonoured ==
    /\ [][\A r \in Reqs, o \in Outcomes :
            (CreateReturns(r, o) /\ Transient(o)
               /\ CallsTo(req[r], Cur(r)) <= Retries[Cur(r)]) =>
              /\ req'[r].pc = "awaitCreate"
              /\ Len(req'[r].calls) = Len(req[r].calls) + 1
              /\ req'[r].calls[Len(req'[r].calls)].p = Cur(r)
         ]_vars
    /\ [](\A r \in Reqs, p \in Providers : Retries[p] = 0 => CallsTo(req[r], p) <= 1)

\* C13: every upstream call of a dispatch, streaming or not, carries the
\* provider's model override when the provider has one and the caller's model
\* otherwise; messages and stream are the caller's.
C13_ModelOverrideWins ==
    \A r \in Reqs : \A i \in 1..Len(req[r].calls) :
      LET c == req[r].calls[i]
          body == req[r].requestBody
      IN  /\ c.opts.model = IF ModelOverride[c.p] # NoModel
                            THEN ModelOverride[c.p] ELSE body.model
          /\ c.opts.messages = body.messages
          /\ c.opts.stream = body.stream

\* a streaming dispatch of a caller asking for "m1": the provider without an
\* override was sent "m1", the provider forcing "m2" was sent "m2"
C13_Witness ==
    \E r \in Reqs :
      /\ req[r].requestBody.stream /\ req[r].requestBody.model = "m1"
      /\ Len(req[r].calls) >= 2
      /\ req[r].calls[1].p = 1 /\ req[r].calls[1].opts.model = "m1"
      /\ req[r].calls[2].p = 2 /\ req[r].calls[2].opts.model = "m2"
      /\ req[r].calls[2].opts.stream

NonEmptySequence(m) == m.type = "array" /\ m.len > 0
\* the request was answered as a caller input error before anything else happened
RejectedAsInputError(rq) ==
    /\ rq.pc = "done"
    /\ rq.resp = <<JsonEv(400, <<"Invalid request body", 0>>, 0)>>
    /\ rq.nsel = 0
    /\ rq.calls = <<>>

\* C14 (as amended): a request whose messages field is absent or not an array is
\* answered 400 with no Selector call, no upstream call and no change of provider
\* state; a request whose messages field is an array, empty or not, goes through
\* the Selector.
C14_ArrayRequiredForDispatch ==
    [][\A r \in Reqs :
         Arrives(r) =>
           IF IsArray(req'[r].requestBody.messages)
           THEN req'[r].nsel = 1
           ELSE RejectedAsInputError(req'[r]) /\ providerStates' = providerStates
      ]_vars

\* C14 as stated: a request whose messages field is not a non-empty sequence is
\* rejected with no Selector call, no upstream call and no change of provider state.
C14_Original ==
    [][\A r \in Reqs :
         (Arrives(r) /\ ~NonEmptySequence(req'[r].requestBody.messages)) =>
           RejectedAsInputError(req'[r]) /\ providerStates' = providerStates
      ]_vars

\* a request whose messages field is a string was rejected while a provider was live
C14_Witness ==
    \E r \in Reqs :
      /\ req[r].requestBody.messages = MsgString
      /\ RejectedAsInputError(req[r])
      /\ Live # {}

\* the dispatch of r starts and finds no live candidate
NoLiveStep(r) == Arrives(r) /\ IsArray(req'[r].requestBody.messages) /\ AllDead
\* the last candidate of r's dispatch fails with a dead-marking error
AllFailedStep(r, o) ==
    /\ CreateReturns(r, o) /\ DeadMarkingOutcome(o)
    /\ req[r].idx = Len(req[r].availableProviders)
\* rq ended with a failure of the proxy's own, not a provider's
ExhaustedRecord(rq) ==
    rq.pc = "done" /\ rq.nsel = 1 /\ Len(rq.resp) = 1 /\ Exhaustion(rq.resp[1])

\* C15 (as amended): a dispatch that finds no live candidate and a dispatch whose
\* candidates all failed with dead-marking errors both end with a single response
\* of status 500 that carries nothing of an upstream error; its text is "No
\* available providers" in the first case and "All providers failed" in the second.
C15_ExhaustionIsServerError ==
    [][\A r \in Reqs :
         /\ NoLiveStep(r) =>
              /\ ExhaustedRecord(req'[r])
              /\ req'[r].resp[1].body = <<"No available providers", 0>>
         /\ \A o \in Outcomes :
              AllFailedStep(r, o) =>
                /\ ExhaustedRecord(req'[r])
                /\ req'[r].resp[1].body = <<"All providers failed", 0>>
      ]_vars

\* C15 as stated: the exhaustion failure is the same response in both cases, so a
\* dispatch that ends exhausted right after an exhausted one returns what that
\* one returned.
C15_Original ==
    [][\A r \in Reqs :
         (Arrives(r) /\ ExhaustedRecord(req[r]) /\ ExhaustedRecord(req'[r]))
           => req'[r].resp = req[r].resp
      ]_vars

\* every provider was a candidate, every call failed, the caller got the 500
C15_Witness ==
    \E r \in Reqs :
      /\ ExhaustedRecord(req[r])
      /\ Len(req[r].availableProviders) = NumProviders
      /\ Len(req[r].calls) = NumProviders
      /\ req[r].resp[1].body = <<"All providers failed", 0>>

\* a response that ends the exchange: res.json(...) or res.end()
Terminal(e) == e.kind \in {"json", "end"}
\* a candidate's output has reached the caller
HasOutput(rq) == \E i \in 1..Len(rq.resp) : rq.resp[i].from \in Providers

\* C16: once output of a candidate has reached the caller, the dispatch issues no
\* further upstream call; a dispatch issues a call only at its start or in the step
\* that settles its previous call, so it has one call outstanding at most; all
\* output comes from the candidate called last; and a finished dispatch has sent
\* exactly one terminal response, as the last thing it sent, an unfinished one none.
C16_FirstTerminalOutcomeWins ==
    /\ [][\A r \in Reqs :
            ~Arrives(r) =>
              /\ HasOutput(req[r]) =>
                    (req'[r].calls = req[r].calls /\ req'[r].idx = req[r].idx)
              /\ req'[r].calls # req[r].calls =>
                    /\ req[r].pc = "awaitCreate"
                    /\ req'[r].pc = "awaitCreate"
                    /\ Len(req'[r].calls) = Len(req[r].calls) + 1
                    /\ \E o \in Outcomes : CreateReturns(r, o)
         ]_vars
    /\ [](\A r \in Reqs :
            /\ Len(req[r].calls) = req[r].idx
            /\ \A i \in 1..Len(req[r].resp) :
                  req[r].resp[i].from \in Providers => req[r].resp[i].from = Cur(r)
            /\ LET terminals == { i \in 1..Len(req[r].resp) : Terminal(req[r].resp[i]) }
               IN  IF req[r].pc = "done"
                   THEN terminals = {Len(req[r].resp)} /\ Len(req[r].resp) >= 1
                   ELSE terminals = {})

\* the first candidate's completion was returned; the other candidates, live, were
\* never called
C16_Witness ==
    \E r \in Reqs :
      /\ req[r].pc = "done"
      /\ Len(req[r].availableProviders) = NumProviders
      /\ req[r].idx = 1 /\ Len(req[r].calls) = 1
      /\ req[r].resp = <<JsonEv(200, <<"completion", Cur(r)>>, Cur(r))>>
      /\ \A i \in 2..NumProviders : ~IsDead(req[r].availableProviders[i])

\* C17: when DEAD_PROVIDER_CHECK_PERIOD is <= 0, no health check is ever issued
\* and a dead provider stays dead.
C17_DisabledProberNeverRuns ==
    [][DEAD_PROVIDER_CHECK_PERIOD <= 0 =>
         \A p \in Providers :
           /\ probes'[p] <= probes[p]
           /\ IsDead(p) => providerStates'.providers[p].isDead
      ]_vars

\* C18: a run of the timer callback issues one health check for every provider
\* that is dead at that moment and for no other; and when the timer is installed,
\* a dead provider whose health checks all succeed from some point on becomes
\* live again.
C18_DeadProviderEventuallyRevived ==
    /\ [][Tick => \A p \in Providers :
                    probes'[p] = probes[p] + (IF IsDead(p) THEN 1 ELSE 0)]_vars
    /\ \A p \in Providers :
         (<>[][\A o \in Outcomes : healthCheck(p, o) => o = OkOutcome]_vars)
           => ((TimerInstalled /\ IsDead(p)) ~> ~IsDead(p))

\* a provider that was checked and found failing is checked again
C18_Witness ==
    \E p \in Providers :
      /\ IsDead(p)
      /\ healthLog = [p |-> p, line |-> "Health check failed"]
      /\ probes[p] = 1

\* C19: once the caller of a streaming request has disconnected, the handler
\* reads no further fragment from the upstream stream and relays nothing more.
C19_DisconnectStopsRelay ==
    [][\A r \in Reqs :
         (req[r].callerGone /\ req[r].pc = "streaming") =>
           /\ req'[r].emitted = req[r].emitted
           /\ \A i \in 1..Len(req'[r].resp) :
                 i > Len(req[r].resp) => req'[r].resp[i].kind # "write"
      ]_vars

LastUsedAt(p) == providerStates.providers[p].lastUsedAt
\* this step issues an upstream call of r's dispatch (the one req'[r] awaits)
NewCall(r) ==
    /\ req'[r].pc = "awaitCreate"
    /\ req[r].pc \in {"idle", "done"} \/ req'[r].idx = req[r].idx + 1
Called(r) == req'[r].availableProviders[req'[r].idx]

\* C20 (the revision that keeps lastUsedAt): the step that issues an upstream call
\* to a provider sets that provider's lastUsedAt to the current time, and nothing
\* else ever changes a lastUsedAt: not the outcome of the call, and not a dispatch
\* that does not reach the provider; so every provider a dispatch has called
\* carries a time of use.
C20_LastUsedAtSetBeforeCall ==
    /\ [][revision = "current" =>
            /\ \A r \in Reqs :
                  NewCall(r) => providerStates'.providers[Called(r)].lastUsedAt = now
            /\ \A p \in Providers :
                  providerStates'.providers[p].lastUsedAt # LastUsedAt(p) =>
                    \E r \in Reqs : NewCall(r) /\ Called(r) = p
         ]_vars
    /\ [](revision = "current" =>
            \A r \in Reqs : \A i \in 1..Len(req[r].calls) :
               LastUsedAt(req[r].calls[i].p) \in 1..now)

\* at time 2 the first candidate was called and its client error forwarded; the
\* next candidate, never reached, still carries its time of use 1
C20_Witness ==
    \E r \in Reqs :
      /\ revision = "current" /\ now = 2
      /\ req[r].pc = "done" /\ req[r].idx = 1
      /\ Len(req[r].availableProviders) >= 2
      /\ req[r].resp[1].status \in {400, 404}
      /\ LastUsedAt(req[r].availableProviders[1]) = 2
      /\ LastUsedAt(req[r].availableProviders[2]) = 1

\* C21: the step in which a dispatch runs the Selector, in either mode, leaves
\* the mode, every provider's isDead and lastFailedAt and the providers array's
\* order as they were; the only field that step changes is the lastUsedAt of the
\* provider the handler calls first, set by the handler's loop; so an ordered read
\* of the endpoint's list after the call gives what it gave before.
C21_SelectorHasNoSideEffects ==
    [][\A r \in Reqs :
         SelectorCall(r) =>
           /\ providerStates'.mode = providerStates.mode
           /\ Len(providerStates'.providers) = Len(providerStates.providers)
           /\ \A p \in Providers :
                 /\ providerStates'.providers[p].isDead = providerStates.providers[p].isDead
                 /\ providerStates'.providers[p].lastFailedAt
                      = providerStates.providers[p].lastFailedAt
                 /\ providerStates'.providers[p].lastUsedAt # LastUsedAt(p) =>
                      (NewCall(r) /\ Called(r) = p)
           /\ Filter(providerStates'.providers) = Filter(providerStates.providers)
      ]_vars

\* random mode: the Selector returned the three providers in another order than
\* the configured one while their times of use differed; the provider not called
\* first kept its time of use
C21_Witness ==
    \E r \in Reqs :
      /\ providerStates.mode = "random"
      /\ req[r].pc = "awaitCreate" /\ req[r].idx = 1
      /\ Len(req[r].availableProviders) = NumProviders
      /\ req[r].availableProviders # ConfiguredOrder
      /\ now = 2
      /\ LastUsedAt(Cur(r)) = 2
      /\ \E q \in Providers \ {Cur(r)} : LastUsedAt(q) = 1

\* C22: with two dispatches and the prober interleaving, a dispatch runs the
\* Selector once, at its start, and gets the providers that are live at that
\* moment; its candidates never change afterwards; when a candidate's call fails
\* with a dead-marking error the dispatch calls the next candidate of its sequence
\* whether or not that one has been marked dead meanwhile; and it calls none but
\* its candidates, so a provider revived after the selection is not called.
C22_CandidatesFixedAtSelection ==
    /\ [][\A r \in RaceReqs :
            /\ SelectorCall(r) => Rng(req'[r].availableProviders) = Live
            /\ ~Arrives(r) =>
                  /\ req'[r].availableProviders = req[r].availableProviders
                  /\ req'[r].nsel = req[r].nsel
            /\ \A o \in Outcomes :
                  (/\ CreateReturns(r, o) /\ DeadMarkingOutcome(o)
                   /\ req[r].idx < Len(req[r].availableProviders))
                  => (/\ NewCall(r)
                      /\ Called(r) = req[r].availableProviders[req[r].idx + 1])
         ]_vars
    /\ [](\A r \in RaceReqs :
            /\ req[r].nsel <= 1
            /\ Len(req[r].calls) <= Len(req[r].availableProviders)
            /\ \A i \in 1..Len(req[r].calls) :
                  req[r].calls[i].p = req[r].availableProviders[i])

\* dispatch s left provider p behind, and so marked it dead, at time 1 (the call
\* to its next candidate dates from then); dispatch r issued its call to p at
\* time 2, when p was dead already, and awaits it
C22_Witness ==
    \E r \in RaceReqs, s \in RaceReqs :
      /\ r # s
      /\ now = 2 /\ probes = [p \in Providers |-> 0] /\ healthLog.line = "none"
      /\ req[r].pc = "awaitCreate" /\ req[r].idx >= 2
      /\ IsDead(Cur(r))
      /\ LastUsedAt(Cur(r)) = 2
      /\ \E j \in 1..(req[s].idx - 1) :
            /\ req[s].availableProviders[j] = Cur(r)
            /\ LastUsedAt(req[s].availableProviders[j + 1]) = 1

\* C23: when the create call of a streaming request fails with a dead-marking
\* error, nothing has been sent to the caller yet; the step marks the provider dead
\* and calls the next candidate, still with nothing sent, or ends with the
\* exhaustion failure; and whatever a streaming response holds of providers'
\* output comes from one provider, the candidate called last.
C23_StreamOpenFailureFailsOver ==
    /\ [][\A r \in Reqs, o \in Outcomes :
            (CreateReturns(r, o) /\ req[r].requestBody.stream /\ DeadMarkingOutcome(o)) =>
              /\ providerStates'.providers[Cur(r)].isDead
              /\ req[r].resp = <<>>
              /\ IF req[r].idx < Len(req[r].availableProviders)
                 THEN /\ req'[r].resp = <<>>
                      /\ NewCall(r)
                      /\ Called(r) = req[r].availableProviders[req[r].idx + 1]
                 ELSE ExhaustedRecord(req'[r])
         ]_vars
    /\ [](\A r \in Reqs :
            req[r].requestBody.stream =>
              \A i \in 1..Len(req[r].resp) :
                 req[r].resp[i].kind \in {"headers", "write", "end"}
                   => req[r].resp[i].from = Cur(r))

\* the first candidate's stream failed to open; the second candidate's stream is
\* being relayed, and every event the caller has received comes from it
C23_Witness ==
    \E r \in Reqs :
      /\ req[r].requestBody.stream
      /\ req[r].pc = "streaming" /\ req[r].idx = 2
      /\ IsDead(req[r].availableProviders[1])
      /\ Len(req[r].emitted) = MaxFrags
      /\ Len(req[r].resp) = MaxFrags + 1
      /\ \A i \in 1..Len(req[r].resp) : req[r].resp[i].from = req[r].availableProviders[2]

HasFailureTime(p) == providerStates.providers[p].lastFailedAt >= 1

\* C25: in every reachable state a provider's lastFailedAt is a failure time
\* exactly when the provider is dead.
C25_FailureTimeIffDead ==
    \A p \in Providers : HasFailureTime(p) <=> IsDead(p)

\* the five ways a dispatch ends
EndsRejected(rq) == RejectedAsInputError(rq)
EndsSuccess(rq) ==
    /\ rq.idx >= 1
    /\ rq.resp = <<JsonEv(200, <<"completion", rq.availableProviders[rq.idx]>>,
                          rq.availableProviders[rq.idx])>>
EndsForwarded(rq) ==
    /\ rq.idx >= 1 /\ Len(rq.resp) = 1
    /\ rq.resp[1].kind = "json" /\ rq.resp[1].status # 200
    /\ rq.resp[1].from = rq.availableProviders[rq.idx]
EndsStream(rq) ==
    /\ rq.idx >= 1 /\ Len(rq.resp) >= 2
    /\ rq.resp[1] = HeadersEv(rq.availableProviders[rq.idx])
    /\ rq.resp[Len(rq.resp)] = EndEv(rq.availableProviders[rq.idx])
EndsExhausted(rq) == ExhaustedRecord(rq)

====
